---- MODULE Spec2Model ----
(***************************************************************************)
(* Model of card_diff/compare.py: the line parser, the card-file and       *)
(* filter-file readers, the comparator and the reporter of main().         *)
(*                                                                         *)
(* A Python str is modelled as a sequence of one-character strings, so     *)
(* that strip, split, the "in" substring test and the three regular        *)
(* expressions are computed character by character.                        *)
(***************************************************************************)
EXTENDS Integers, Sequences, FiniteSets, TLC

VARIABLES
    \* ---- one call of parse_card_line / normalize_card_name
    ucall,          \* "parse" | "normalize" | "returned"
    line,           \* argument of parse_card_line
    card_name,      \* argument of normalize_card_name
    uresult,        \* value returned by the call
    \* ---- one call of read_card_file
    f_pc,           \* "idle" | "open" | "loop" | "returned" | "exited"
    f_lines,        \* lines the loop has consumed so far
    f_cards,        \* the local dictionary cards
    \* ---- one run of main()
    pc,             \* position of main
    filter_file,    \* args.filter: TRUE when --filter was given
    cards1,         \* compare_card_lists: cards1
    cards2,         \* compare_card_lists: cards2
    filter_cards,   \* compare_card_lists / read_filter_file: filter_cards
    nread,          \* lines consumed from the file being read
    read1,          \* cards1 as read_card_file returned it
    read2,          \* cards2 as read_card_file returned it
    filter_failed,  \* read_filter_file took one of its except branches
    results,        \* the tuple compare_card_lists returns
    handles,        \* files currently open
    events,         \* opens, closes and steps of the run, in order
    output,         \* lines printed to standard output, in order
    exit_status     \* <<>> while running, then <<status>>

unit_vars == <<ucall, line, card_name, uresult>>
file_vars == <<f_pc, f_lines, f_cards>>
main_vars == <<pc, filter_file, cards1, cards2, filter_cards, nread, read1, read2,
               filter_failed, results, handles, events, output, exit_status>>
vars == <<unit_vars, file_vars, main_vars>>

----------------------------------------------------------------------------
(* Characters and strings *)

Whitespace == {" ", "\t", "\n"}

Digits == {"0", "1", "2", "3", "4", "5", "6", "7", "8", "9"}

DigitVal(c) ==
    CASE c = "0" -> 0 [] c = "1" -> 1 [] c = "2" -> 2 [] c = "3" -> 3
      [] c = "4" -> 4 [] c = "5" -> 5 [] c = "6" -> 6 [] c = "7" -> 7
      [] c = "8" -> 8 [] c = "9" -> 9

\* int(s) for a string of decimal digits
RECURSIVE IntOf(_)
IntOf(s) ==
    IF s = <<>> THEN 0
    ELSE 10 * IntOf(SubSeq(s, 1, Len(s) - 1)) + DigitVal(s[Len(s)])

\* str.strip()
RECURSIVE LStrip(_)
LStrip(s) ==
    IF s # <<>> /\ s[1] \in Whitespace THEN LStrip(Tail(s)) ELSE s

RECURSIVE RStrip(_)
RStrip(s) ==
    IF s # <<>> /\ s[Len(s)] \in Whitespace
    THEN RStrip(SubSeq(s, 1, Len(s) - 1))
    ELSE s

Strip(s) == RStrip(LStrip(s))

\* pat occurs in s starting at index i
MatchAt(s, pat, i) ==
    /\ i >= 1
    /\ i + Len(pat) - 1 <= Len(s)
    /\ \A k \in 1..Len(pat) : s[i + k - 1] = pat[k]

\* index of the first occurrence of pat in s, 0 when there is none (str.find + 1)
Find(s, pat) ==
    LET hits == {i \in 1..Len(s) : MatchAt(s, pat, i)}
    IN IF hits = {} THEN 0 ELSE CHOOSE i \in hits : \A j \in hits : i <= j

\* pat in s
Contains(s, pat) == Find(s, pat) # 0

\* s.split(pat)[0]
SplitHead(s, pat) ==
    IF Contains(s, pat) THEN SubSeq(s, 1, Find(s, pat) - 1) ELSE s

\* s.split(pat), the whole list
RECURSIVE Split(_, _)
Split(s, pat) ==
    IF Contains(s, pat)
    THEN <<SubSeq(s, 1, Find(s, pat) - 1)>>
            \o Split(SubSeq(s, Find(s, pat) + Len(pat), Len(s)), pat)
    ELSE <<s>>

DoubleSlash == <<" ", "/", "/", " ">>
Slash == <<"/">>
Sideboard == <<"S", "i", "d", "e", "b", "o", "a", "r", "d">>
NoDeck == <<"{", "n", "o", "D", "e", "c", "k", "}">>
Forest == <<"F", "o", "r", "e", "s", "t">>
Island == <<"I", "s", "l", "a", "n", "d">>
Swamp == <<"S", "w", "a", "m", "p">>
Plains == <<"P", "l", "a", "i", "n", "s">>
Mountain == <<"M", "o", "u", "n", "t", "a", "i", "n">>

BASIC_LANDS == {Forest, Island, Swamp, Plains, Mountain}

----------------------------------------------------------------------------
(* normalize_card_name *)

\* variant: the single-slash test is made before the double-slash test
normalize_slash_first(name) ==
    IF Contains(name, Slash) THEN Strip(SplitHead(name, Slash))
    ELSE IF Contains(name, DoubleSlash) THEN Strip(SplitHead(name, DoubleSlash))
    ELSE name

normalize_card_name(name) ==
    IF Contains(name, DoubleSlash) THEN Strip(SplitHead(name, DoubleSlash))
    ELSE IF Contains(name, Slash) THEN Strip(SplitHead(name, Slash))
    ELSE name

----------------------------------------------------------------------------
(* parse_card_line *)

\* the value of every "return '', 0"
Skip == << <<>>, 0 >>

\* re.search(r'\[([^\]]+)\]', line): the set of start indices of a match
TagStarts(l) ==
    {i \in 1..Len(l) :
        /\ l[i] = "["
        /\ \E j \in (i + 2)..Len(l) :
              /\ l[j] = "]"
              /\ \A k \in (i + 1)..(j - 1) : l[k] # "]"}

HasTagsMatch(l) == TagStarts(l) # {}

\* tags_match.group(1) of the leftmost match
TagsText(l) ==
    LET i == CHOOSE a \in TagStarts(l) : \A b \in TagStarts(l) : a <= b
        j == CHOOSE a \in (i + 2)..Len(l) :
                /\ l[a] = "]"
                /\ \A k \in (i + 1)..(a - 1) : l[k] # "]"
    IN SubSeq(l, i + 1, j - 1)

\* variant: 'Sideboard' is looked for as a substring of the bracketed text
TagSkipSubstring(l) ==
    /\ Contains(l, <<"[">>) /\ Contains(l, <<"]">>)
    /\ HasTagsMatch(l)
    /\ \/ Contains(TagsText(l), Sideboard)
       \/ Contains(TagsText(l), NoDeck)

\* lines 59-72: the line is dropped because of its tags
TagSkip(l) ==
    /\ Contains(l, <<"[">>) /\ Contains(l, <<"]">>)
    /\ HasTagsMatch(l)
    /\ LET tags_text == TagsText(l)
           tags == Split(tags_text, <<",">>)
       IN \/ \E t \in 1..Len(tags) : Strip(tags[t]) = Sideboard
          \/ Contains(tags_text, NoDeck)

\* length of the longest prefix of s whose characters are all in set S
RECURSIVE Run(_, _)
Run(s, S) ==
    IF s # <<>> /\ s[1] \in S THEN 1 + Run(Tail(s), S) ELSE 0

\* re.match(r'^(\d+)x?\s+', line): 0 when there is no match, else match.end()
QuantityEnd(l) ==
    LET nd == Run(l, Digits)
        nx == IF nd < Len(l) /\ l[nd + 1] = "x" THEN nd + 1 ELSE nd
        ns == Run(SubSeq(l, nx + 1, Len(l)), Whitespace)
    IN IF nd >= 1 /\ ns >= 1 THEN nx + ns ELSE 0

\* length of the longest prefix of s that does not contain the character c
RECURSIVE RunNot(_, _)
RunNot(s, c) ==
    IF s # <<>> /\ s[1] # c THEN 1 + RunNot(Tail(s), c) ELSE 0

\* lines 74-93: quantity and name of a stripped, non-empty line
ParseBody(l) ==
    IF QuantityEnd(l) = 0 THEN Skip
    ELSE
        LET quantity == IntOf(SubSeq(l, 1, Run(l, Digits)))
            remaining_text == SubSeq(l, QuantityEnd(l) + 1, Len(l))
            nname == RunNot(remaining_text, "(")
        IN IF nname = 0 THEN Skip
           ELSE <<normalize_card_name(Strip(SubSeq(remaining_text, 1, nname))),
                  quantity>>

parse_card_line(raw_line) ==
    LET l == Strip(raw_line) IN
    IF l = <<>> THEN Skip
    ELSE IF TagSkip(l) THEN Skip
    ELSE ParseBody(l)

----------------------------------------------------------------------------
(* Inputs of the unit specification *)

MaxNamePieces == 3
MaxTagPieces == 5

SeqsUpTo(S, n) == UNION {[1..k -> S] : k \in 0..n}

RECURSIVE Flatten(_)
Flatten(ss) == IF ss = <<>> THEN <<>> ELSE Head(ss) \o Flatten(Tail(ss))

NamePieces ==
    {<<"A">>, <<"B">>, <<" ">>, Slash, DoubleSlash, <<" ", "/", " ">>, <<"(">>}

RawNames == {Flatten(ps) : ps \in SeqsUpTo(NamePieces, MaxNamePieces)}

QtyTokens ==
    {<<>>, <<"1", " ">>, <<"2", "x", " ">>, <<"1", "2", "\t">>, <<"x", " ">>,
     <<"3">>, <<" ", "0", "4", "x", " ", " ">>}

Suffixes ==
    {<<>>, <<" ", "(", "M", ")", " ", "1">>, <<"\n">>}

NameLines == {q \o n \o s : q \in QtyTokens, n \in RawNames, s \in Suffixes}

TagPieces == {<<"[">>, <<"]">>, <<"A", ",">>, <<" ">>, Sideboard, NoDeck}

TagLines ==
    {<<"1", " ", "A", " ">> \o Flatten(ps) : ps \in SeqsUpTo(TagPieces, MaxTagPieces)}

InitMainIdle ==
    /\ pc = "idle"
    /\ filter_file = FALSE
    /\ cards1 = <<>>
    /\ cards2 = <<>>
    /\ filter_cards = {}
    /\ nread = 0
    /\ read1 = <<>>
    /\ read2 = <<>>
    /\ filter_failed = FALSE
    /\ results = <<>>
    /\ handles = {}
    /\ events = <<>>
    /\ output = <<>>
    /\ exit_status = <<>>

InitFileIdle ==
    /\ f_pc = "idle"
    /\ f_lines = <<>>
    /\ f_cards = <<>>

InitUnitIdle ==
    /\ ucall = "idle"
    /\ line = <<>>
    /\ card_name = <<>>
    /\ uresult = <<>>

InitUnit ==
    /\ \/ /\ ucall = "parse"
          /\ line \in NameLines \cup TagLines
          /\ card_name = <<>>
       \/ /\ ucall = "normalize"
          /\ line = <<>>
          /\ card_name \in RawNames
    /\ uresult = <<>>
    /\ InitFileIdle
    /\ InitMainIdle

CallParse ==
    /\ ucall = "parse"
    /\ uresult' = parse_card_line(line)
    /\ ucall' = "parsed"
    /\ UNCHANGED <<line, card_name, file_vars, main_vars>>

CallNormalize ==
    /\ ucall = "normalize"
    /\ uresult' = normalize_card_name(card_name)
    /\ ucall' = "normalized"
    /\ UNCHANGED <<line, card_name, file_vars, main_vars>>

NextUnit == CallParse \/ CallNormalize

SpecUnit == InitUnit /\ [][NextUnit]_vars

----------------------------------------------------------------------------
(* read_card_file: the dictionary and the loop body *)

MaxLines == 3

\* the lines a card file is made of
FileLines ==
    {<<"1", " ", "A", "\n">>,
     <<"2", "x", " ", "A", " ", "(", "M", ")", " ", "2", "\n">>,
     <<"1", " ", "B", "\n">>,
     <<"1", " ", "A", "B", "/", "C", "\n">>,
     <<"3", " ">> \o Forest \o <<"\n">>,
     <<"2", " ", "/", "A", "\n">>,
     <<"1", " ", "A", " ", "[">> \o Sideboard \o <<"]", "\n">>,
     <<"\n">>}

\* defaultdict(int)
EmptyCards == <<>>

\* variant: cards[card_name] = quantity
AddCardOverwrite(cards, l) ==
    LET name == parse_card_line(l)[1]
        quantity == parse_card_line(l)[2]
    IN IF name # <<>> /\ name \notin BASIC_LANDS
       THEN [n \in DOMAIN cards \cup {name} |-> IF n = name THEN quantity ELSE cards[n]]
       ELSE cards

\* lines 117-120: the body of the loop over the lines of a card file
AddCard(cards, l) ==
    LET name == parse_card_line(l)[1]
        quantity == parse_card_line(l)[2]
    IN IF name # <<>> /\ name \notin BASIC_LANDS
       THEN [n \in DOMAIN cards \cup {name} |->
                (IF n \in DOMAIN cards THEN cards[n] ELSE 0)
                    + (IF n = name THEN quantity ELSE 0)]
       ELSE cards

InitFile ==
    /\ f_pc = "open"
    /\ f_lines = <<>>
    /\ f_cards = EmptyCards
    /\ InitUnitIdle
    /\ InitMainIdle

\* line 115: open() succeeds
FileOpen ==
    /\ f_pc = "open"
    /\ f_pc' = "loop"
    /\ UNCHANGED <<f_lines, f_cards, unit_vars, main_vars>>

\* lines 115, 121-126: open() raises, the handler calls sys.exit(1)
FileOpenFails ==
    /\ f_pc = "open"
    /\ f_pc' = "exited"
    /\ UNCHANGED <<f_lines, f_cards, unit_vars, main_vars>>

\* lines 116-120: one iteration of the loop
FileReadLine ==
    /\ f_pc = "loop"
    /\ Len(f_lines) < MaxLines
    /\ \E l \in FileLines :
          /\ f_cards' = AddCard(f_cards, l)
          /\ f_lines' = Append(f_lines, l)
    /\ UNCHANGED <<f_pc, unit_vars, main_vars>>

\* lines 116, 124-126: reading the next line raises, the handler calls sys.exit(1)
FileReadFails ==
    /\ f_pc = "loop"
    /\ f_pc' = "exited"
    /\ UNCHANGED <<f_lines, f_cards, unit_vars, main_vars>>

\* line 128: the file is exhausted, return cards
FileReturn ==
    /\ f_pc = "loop"
    /\ f_pc' = "returned"
    /\ UNCHANGED <<f_lines, f_cards, unit_vars, main_vars>>

NextFile == FileOpen \/ FileOpenFails \/ FileReadLine \/ FileReadFails \/ FileReturn

SpecFile == InitFile /\ [][NextFile]_vars

----------------------------------------------------------------------------
(* Properties of read_card_file (SpecFile) *)

\* the indices of the lines of ls whose parsed name is name
LinesNamed(ls, name) == {i \in 1..Len(ls) : parse_card_line(ls[i])[1] = name}

\* the sum of the parsed quantities of the lines of ls with index in I
RECURSIVE SumQty(_, _)
SumQty(ls, I) ==
    IF I = {} THEN 0
    ELSE LET i == CHOOSE j \in I : TRUE
         IN parse_card_line(ls[i])[2] + SumQty(ls, I \ {i})

\* the dictionary built from the lines ls, taken in order
RECURSIVE ReadAll(_)
ReadAll(ls) ==
    IF ls = <<>> THEN EmptyCards
    ELSE AddCard(ReadAll(SubSeq(ls, 1, Len(ls) - 1)), ls[Len(ls)])

Orders(n) == {p \in [1..n -> 1..n] : \A i, j \in 1..n : i # j => p[i] # p[j]}

\* C3: the quantity stored for a non-empty, non-basic-land name is the sum of
\* the parsed quantities of all lines read with that name, and the dictionary
\* does not depend on the order of the lines.
C3_SumOfLines ==
    f_pc \in {"loop", "returned"} =>
        /\ DOMAIN f_cards =
              {parse_card_line(f_lines[i])[1] : i \in 1..Len(f_lines)}
                  \ ({<<>>} \cup BASIC_LANDS)
        /\ \A name \in DOMAIN f_cards :
              f_cards[name] = SumQty(f_lines, LinesNamed(f_lines, name))
        /\ \A p \in Orders(Len(f_lines)) :
              ReadAll([i \in 1..Len(f_lines) |-> f_lines[p[i]]]) = f_cards

\* "1 A" and "2x A (M) 2" were read from one file and A has quantity 3
C3_Witness ==
    /\ f_pc = "returned"
    /\ \E i, j \in 1..Len(f_lines) :
          /\ f_lines[i] = <<"1", " ", "A", "\n">>
          /\ f_lines[j] = <<"2", "x", " ", "A", " ", "(", "M", ")", " ", "2", "\n">>
    /\ <<"A">> \in DOMAIN f_cards
    /\ f_cards[<<"A">>] = 3

----------------------------------------------------------------------------
(* compare_card_lists and the report of main *)

MaxFilterLines == 2

\* the lines a filter file is made of
FilterLines ==
    {<<"1", " ", "A", "\n">>,
     <<"1", " ", "B", "\n">>,
     <<"A", "B", "\n">>,
     <<"1", " ">> \o Forest \o <<"\n">>,
     <<"2", " ", "/", "A", "\n">>}

\* lines 146-148: the body of the loop over the lines of the filter file
AddFilter(fc, l) ==
    IF parse_card_line(l)[1] # <<>> THEN fc \cup {parse_card_line(l)[1]} ELSE fc

\* variant: the cards are deleted from a copy, the dictionary itself is kept
RemoveFromCopy(cards, fc) == cards

\* lines 183-187: del cards[card] for every card of filter_cards
RemoveFiltered(cards, fc) == [n \in DOMAIN cards \ fc |-> cards[n]]

\* variant: the test cards2[card] != qty1 is missing
CompareNoQuantityTest(c1, c2) ==
    <<[n \in DOMAIN c1 \ DOMAIN c2 |-> c1[n]],
      [n \in DOMAIN c2 \ DOMAIN c1 |-> c2[n]],
      [n \in DOMAIN c1 \cap DOMAIN c2 |-> <<c1[n], c2[n]>>]>>

\* lines 190-201: unique_to_file1, unique_to_file2, different_quantities
CompareMaps(c1, c2) ==
    <<[n \in {m \in DOMAIN c1 : m \notin DOMAIN c2} |-> c1[n]],
      [n \in {m \in DOMAIN c2 : m \notin DOMAIN c1} |-> c2[n]],
      [n \in {m \in DOMAIN c1 : m \in DOMAIN c2 /\ c2[m] # c1[m]} |-> <<c1[n], c2[n]>>]>>

\* ord(c) for the characters of the model's alphabet
Ord(c) ==
    CASE c = "\t" -> 9 [] c = "\n" -> 10 [] c = " " -> 32 [] c = "(" -> 40
      [] c = ")" -> 41 [] c = "," -> 44 [] c = "/" -> 47
      [] c \in Digits -> 48 + DigitVal(c)
      [] c = "A" -> 65 [] c = "B" -> 66 [] c = "C" -> 67 [] c = "D" -> 68
      [] c = "F" -> 70 [] c = "I" -> 73 [] c = "M" -> 77 [] c = "P" -> 80
      [] c = "S" -> 83 [] c = "[" -> 91 [] c = "]" -> 93
      [] c = "a" -> 97 [] c = "b" -> 98 [] c = "c" -> 99 [] c = "d" -> 100
      [] c = "e" -> 101 [] c = "i" -> 105 [] c = "k" -> 107 [] c = "l" -> 108
      [] c = "m" -> 109 [] c = "n" -> 110 [] c = "o" -> 111 [] c = "p" -> 112
      [] c = "r" -> 114 [] c = "s" -> 115 [] c = "t" -> 116 [] c = "u" -> 117
      [] c = "w" -> 119 [] c = "x" -> 120 [] c = "{" -> 123 [] c = "}" -> 125

\* a < b for two Python str
RECURSIVE StrLess(_, _)
StrLess(a, b) ==
    IF a = <<>> THEN b # <<>>
    ELSE IF b = <<>> THEN FALSE
    ELSE IF a[1] = b[1] THEN StrLess(Tail(a), Tail(b))
    ELSE Ord(a[1]) < Ord(b[1])

\* variant: sorted(..., reverse=True)
RECURSIVE SortedDescending(_)
SortedDescending(S) ==
    IF S = {} THEN <<>>
    ELSE LET m == CHOOSE x \in S : \A y \in S \ {x} : StrLess(y, x)
         IN <<m>> \o SortedDescending(S \ {m})

\* the keys of sorted(d.items()): the keys are distinct, so they alone decide
RECURSIVE SortedAscending(_)
SortedAscending(S) ==
    IF S = {} THEN <<>>
    ELSE LET m == CHOOSE x \in S : \A y \in S \ {x} : StrLess(x, y)
         IN <<m>> \o SortedAscending(S \ {m})

Sorted(S) == SortedAscending(S)

\* lines 229-234, 236-241, 243-248: one section of the report
Section(sec, d) ==
    <<<<"title", sec>>>> \o
        (IF DOMAIN d # {}
         THEN [i \in 1..Cardinality(DOMAIN d) |->
                  <<"entry", sec, Sorted(DOMAIN d)[i], d[Sorted(DOMAIN d)[i]]>>]
         ELSE <<<<"none", sec>>>>)

\* lines 228-248
Report(res) == Section(1, res[1]) \o Section(2, res[2]) \o Section(3, res[3])

\* variant: open() without with, the file is never closed
ReleaseNothing(hs, k) == hs

\* the with statement leaves its block: the file is closed
Release(hs, k) == hs \ {k}

----------------------------------------------------------------------------
(* One run of main(), from the return of parse_args *)

Init ==
    /\ pc = "header"
    /\ filter_file \in BOOLEAN
    /\ cards1 = EmptyCards
    /\ cards2 = EmptyCards
    /\ filter_cards = {}
    /\ nread = 0
    /\ read1 = EmptyCards
    /\ read2 = EmptyCards
    /\ filter_failed = FALSE
    /\ results = <<>>
    /\ handles = {}
    /\ events = <<>>
    /\ output = <<>>
    /\ exit_status = <<>>
    /\ InitUnitIdle
    /\ InitFileIdle

At(base, k) ==
    IF k = 1 THEN base \o "1" ELSE base \o "2"

\* lines 219-223
PrintHeader ==
    /\ pc = "header"
    /\ output' = Append(output, <<"header">>)
    /\ pc' = "open1"
    /\ UNCHANGED <<filter_file, cards1, cards2, filter_cards, nread, read1, read2,
                   filter_failed, results, handles, events, exit_status,
                   unit_vars, file_vars>>

\* read_card_file, line 115: open() succeeds
OpenCardFile(k) ==
    /\ pc = At("open", k)
    /\ handles' = handles \cup {k}
    /\ events' = Append(events, <<"open", k>>)
    /\ nread' = 0
    /\ pc' = At("loop", k)
    /\ UNCHANGED <<filter_file, cards1, cards2, filter_cards, read1, read2,
                   filter_failed, results, output, exit_status, unit_vars, file_vars>>

\* read_card_file, line 115: open() raises FileNotFoundError or another exception
OpenCardFileFails(k) ==
    /\ pc = At("open", k)
    /\ events' = events \o <<<<"open", k>>, <<"fail", k>>>>
    /\ pc' = At("except", k)
    /\ UNCHANGED <<filter_file, cards1, cards2, filter_cards, nread, read1, read2,
                   filter_failed, results, handles, output, exit_status,
                   unit_vars, file_vars>>

\* read_card_file, lines 116-120: one iteration of the loop
ReadCardLine(k) ==
    /\ pc = At("loop", k)
    /\ nread < MaxLines
    /\ nread' = nread + 1
    /\ \E l \in FileLines :
          IF k = 1
          THEN cards1' = AddCard(cards1, l) /\ UNCHANGED cards2
          ELSE cards2' = AddCard(cards2, l) /\ UNCHANGED cards1
    /\ UNCHANGED <<pc, filter_file, filter_cards, read1, read2, filter_failed,
                   results, handles, events, output, exit_status, unit_vars, file_vars>>

\* read_card_file, line 116: reading the next line raises; the with statement
\* closes the file before the handler runs
ReadCardLineFails(k) ==
    /\ pc = At("loop", k)
    /\ handles' = Release(handles, k)
    /\ events' = events \o <<<<"close", k>>, <<"fail", k>>>>
    /\ pc' = At("except", k)
    /\ UNCHANGED <<filter_file, cards1, cards2, filter_cards, nread, read1, read2,
                   filter_failed, results, output, exit_status, unit_vars, file_vars>>

\* variant: the handler prints its message and lets the run go on
FatalReturns(k, out) ==
    <<IF k = 1 THEN "open2" ELSE "filter", Append(out, <<"error", k>>), <<>>>>

\* read_card_file, lines 121-126: print the error, sys.exit(1):
\* the next position, the output and the exit status
Fatal(k, out) == <<"exited", Append(out, <<"error", k>>), <<1>>>>

CardFileExcept(k) ==
    /\ pc = At("except", k)
    /\ pc' = Fatal(k, output)[1]
    /\ output' = Fatal(k, output)[2]
    /\ exit_status' = Fatal(k, output)[3]
    /\ UNCHANGED <<filter_file, cards1, cards2, filter_cards, nread, read1, read2,
                   filter_failed, results, handles, events, unit_vars, file_vars>>

\* read_card_file, lines 116, 128: the file is exhausted, the with statement
\* closes it, return cards
CardFileReturn(k) ==
    /\ pc = At("loop", k)
    /\ handles' = Release(handles, k)
    /\ events' = Append(events, <<"close", k>>)
    /\ IF k = 1
       THEN read1' = cards1 /\ UNCHANGED read2 /\ pc' = "open2"
       ELSE read2' = cards2 /\ UNCHANGED read1 /\ pc' = "filter"
    /\ UNCHANGED <<filter_file, cards1, cards2, filter_cards, nread,
                   filter_failed, results, output, exit_status, unit_vars, file_vars>>

\* compare_card_lists, lines 178-179
CheckFilter ==
    /\ pc = "filter"
    /\ pc' = IF filter_file THEN "openf" ELSE "compare"
    /\ UNCHANGED <<filter_file, cards1, cards2, filter_cards, nread, read1, read2,
                   filter_failed, results, handles, events, output, exit_status,
                   unit_vars, file_vars>>

\* read_filter_file, line 144: open() succeeds
OpenFilterFile ==
    /\ pc = "openf"
    /\ handles' = handles \cup {3}
    /\ events' = Append(events, <<"open", 3>>)
    /\ nread' = 0
    /\ pc' = "loopf"
    /\ UNCHANGED <<filter_file, cards1, cards2, filter_cards, read1, read2,
                   filter_failed, results, output, exit_status, unit_vars, file_vars>>

\* read_filter_file, line 144: open() raises
OpenFilterFileFails ==
    /\ pc = "openf"
    /\ events' = events \o <<<<"open", 3>>, <<"fail", 3>>>>
    /\ pc' = "warnf"
    /\ UNCHANGED <<filter_file, cards1, cards2, filter_cards, nread, read1, read2,
                   filter_failed, results, handles, output, exit_status,
                   unit_vars, file_vars>>

\* read_filter_file, lines 145-148: one iteration of the loop
ReadFilterLine ==
    /\ pc = "loopf"
    /\ nread < MaxFilterLines
    /\ nread' = nread + 1
    /\ \E l \in FilterLines : filter_cards' = AddFilter(filter_cards, l)
    /\ UNCHANGED <<pc, filter_file, cards1, cards2, read1, read2, filter_failed,
                   results, handles, events, output, exit_status, unit_vars, file_vars>>

\* read_filter_file, line 145: reading the next line raises; the with statement
\* closes the file before the handler runs
ReadFilterLineFails ==
    /\ pc = "loopf"
    /\ handles' = Release(handles, 3)
    /\ events' = events \o <<<<"close", 3>>, <<"fail", 3>>>>
    /\ pc' = "warnf"
    /\ UNCHANGED <<filter_file, cards1, cards2, filter_cards, nread, read1, read2,
                   filter_failed, results, output, exit_status, unit_vars, file_vars>>

\* read_filter_file, lines 149-156: print the warning, return filter_cards
FilterFileExcept ==
    /\ pc = "warnf"
    /\ output' = Append(output, <<"warning">>)
    /\ filter_failed' = TRUE
    /\ pc' = "remove"
    /\ UNCHANGED <<filter_file, cards1, cards2, filter_cards, nread, read1, read2,
                   results, handles, events, exit_status, unit_vars, file_vars>>

\* read_filter_file, lines 145, 156: the file is exhausted, the with statement
\* closes it, return filter_cards
FilterFileReturn ==
    /\ pc = "loopf"
    /\ handles' = Release(handles, 3)
    /\ events' = Append(events, <<"close", 3>>)
    /\ pc' = "remove"
    /\ UNCHANGED <<filter_file, cards1, cards2, filter_cards, nread, read1, read2,
                   filter_failed, results, output, exit_status, unit_vars, file_vars>>

\* compare_card_lists, lines 183-187
RemoveFilteredCards ==
    /\ pc = "remove"
    /\ cards1' = RemoveFiltered(cards1, filter_cards)
    /\ cards2' = RemoveFiltered(cards2, filter_cards)
    /\ pc' = "compare"
    /\ UNCHANGED <<filter_file, filter_cards, nread, read1, read2, filter_failed,
                   results, handles, events, output, exit_status, unit_vars, file_vars>>

\* compare_card_lists, lines 190-201
Compare ==
    /\ pc = "compare"
    /\ results' = CompareMaps(cards1, cards2)
    /\ events' = Append(events, <<"compare", 0>>)
    /\ pc' = "report"
    /\ UNCHANGED <<filter_file, cards1, cards2, filter_cards, nread, read1, read2,
                   filter_failed, handles, output, exit_status, unit_vars, file_vars>>

\* main, lines 228-248, then the normal end of the process
PrintReport ==
    /\ pc = "report"
    /\ output' = output \o Report(results)
    /\ events' = Append(events, <<"print", 0>>)
    /\ exit_status' = <<0>>
    /\ pc' = "done"
    /\ UNCHANGED <<filter_file, cards1, cards2, filter_cards, nread, read1, read2,
                   filter_failed, results, handles, unit_vars, file_vars>>

Next ==
    \/ PrintHeader
    \/ \E k \in {1, 2} : OpenCardFile(k)
    \/ \E k \in {1, 2} : OpenCardFileFails(k)
    \/ \E k \in {1, 2} : ReadCardLine(k)
    \/ \E k \in {1, 2} : ReadCardLineFails(k)
    \/ \E k \in {1, 2} : CardFileExcept(k)
    \/ \E k \in {1, 2} : CardFileReturn(k)
    \/ CheckFilter
    \/ OpenFilterFile
    \/ OpenFilterFileFails
    \/ ReadFilterLine
    \/ ReadFilterLineFails
    \/ FilterFileExcept
    \/ FilterFileReturn
    \/ RemoveFilteredCards
    \/ Compare
    \/ PrintReport

Spec == Init /\ [][Next]_vars

----------------------------------------------------------------------------
(* Properties of parse_card_line and normalize_card_name (SpecUnit) *)

\* C4: parse_card_line returns either a pair with a non-empty name or the
\* skip signal ("", 0); it never returns an empty name with a non-zero quantity.
C4_PairOrSkip ==
    ucall = "parsed" => (uresult[1] # <<>> \/ uresult = Skip)

\* the first "[" that has a "]" somewhere after it
PairOpens(l) ==
    {i \in 1..Len(l) : l[i] = "[" /\ \E j \in (i + 1)..Len(l) : l[j] = "]"}

FirstOf(S) == CHOOSE i \in S : \A j \in S : i <= j

\* the text between the "[" at i and the nearest "]" after it
TextFrom(l, i) == SubSeq(l, i + 1, i + RunNot(SubSeq(l, i + 1, Len(l)), "]"))

\* a bracketed text excludes its line: a tag equal to Sideboard, or {noDeck} inside
Excludes(text) ==
    \/ \E a \in 1..(Len(text) + 1) : \E b \in (a - 1)..Len(text) :
          /\ a = 1 \/ text[a - 1] = ","
          /\ b = Len(text) \/ text[b + 1] = ","
          /\ \A k \in a..b : text[k] # ","
          /\ Strip(SubSeq(text, a, b)) = Sideboard
    \/ \E i \in 1..Len(text) : MatchAt(text, NoDeck, i)

NonEmptyPairOpens(l) ==
    {i \in PairOpens(l) : l[i + 1] # "]"}

HasTightSlash(name) ==
    \E i \in 1..Len(name) :
        /\ name[i] = "/"
        /\ i = 1 \/ name[i - 1] \notin Whitespace
        /\ i = Len(name) \/ name[i + 1] \notin Whitespace

\* C8 as stated: " // " cuts at its first occurrence; else a "/" with no
\* surrounding spaces cuts at the first "/"; every other name is unchanged.
C8_SpacedSlashUnchanged ==
    ucall = "normalized" =>
        uresult = IF Contains(card_name, DoubleSlash)
                  THEN Strip(SplitHead(card_name, DoubleSlash))
                  ELSE IF HasTightSlash(card_name)
                  THEN Strip(SplitHead(card_name, Slash))
                  ELSE card_name

\* k is where the name is cut: the first " // " when there is one, else the first "/"
CutAt(name, k) ==
    IF \E i \in 1..Len(name) : MatchAt(name, DoubleSlash, i)
    THEN /\ MatchAt(name, DoubleSlash, k)
         /\ \A i \in 1..(k - 1) : ~MatchAt(name, DoubleSlash, i)
    ELSE /\ name[k] = "/"
         /\ \A i \in 1..(k - 1) : name[i] # "/"

\* C8 amended: " // " cuts at its first occurrence; else any "/", with or
\* without spaces around it, cuts at the first "/"; the kept part is trimmed;
\* a name without "/" is unchanged.
C8_AnySlashCuts ==
    ucall = "normalized" =>
        IF \E i \in 1..Len(card_name) : card_name[i] = "/"
        THEN \E k \in 1..Len(card_name) :
                /\ CutAt(card_name, k)
                /\ uresult = Strip(SubSeq(card_name, 1, k - 1))
        ELSE uresult = card_name

\* "A / B" was normalized to "A"
C8_Witness ==
    /\ ucall = "normalized"
    /\ card_name = <<"A", " ", "/", " ", "B">>
    /\ uresult = <<"A">>

----------------------------------------------------------------------------
(* Properties of a run of main() (Spec) *)

Keys(d) == DOMAIN d

\* C1: Unique-to-A is A minus the names of B with A's quantities, Unique-to-B
\* is B minus the names of A with B's quantities, Differing is the names of
\* both whose quantities differ, with the pair of quantities; a name of both
\* with equal quantities is in none of them and the three key sets are disjoint.
C1_CompareResults ==
    pc \in {"report", "done"} =>
        /\ Keys(results[1]) = Keys(cards1) \ Keys(cards2)
        /\ \A n \in Keys(results[1]) : results[1][n] = cards1[n]
        /\ Keys(results[2]) = Keys(cards2) \ Keys(cards1)
        /\ \A n \in Keys(results[2]) : results[2][n] = cards2[n]
        /\ Keys(results[3]) =
              {n \in Keys(cards1) \cap Keys(cards2) : cards1[n] # cards2[n]}
        /\ \A n \in Keys(results[3]) : results[3][n] = <<cards1[n], cards2[n]>>
        /\ \A n \in Keys(cards1) \cap Keys(cards2) :
              cards1[n] = cards2[n] =>
                  n \notin Keys(results[1]) \cup Keys(results[2]) \cup Keys(results[3])
        /\ Keys(results[1]) \cap Keys(results[2]) = {}
        /\ Keys(results[1]) \cap Keys(results[3]) = {}
        /\ Keys(results[2]) \cap Keys(results[3]) = {}

\* a run with a name only in file 1, a name in both with different quantities
\* and a name in both with the same quantity
C1_Witness ==
    /\ pc = "done"
    /\ Keys(results[1]) # {}
    /\ Keys(results[3]) # {}
    /\ \E n \in Keys(cards1) \cap Keys(cards2) : cards1[n] = cards2[n]

\* C2: no card mapping has the empty name or a basic land as a key, and once
\* the filtering step has run neither mapping, and none of the three results,
\* has a key of the exclusion set.
C2_NoExcludedKeys ==
    /\ <<>> \notin Keys(cards1) \cup Keys(cards2)
    /\ (Keys(cards1) \cup Keys(cards2)) \cap BASIC_LANDS = {}
    /\ (filter_file /\ pc \in {"compare", "report", "done"}) =>
          (Keys(cards1) \cup Keys(cards2)) \cap filter_cards = {}
    /\ (filter_file /\ pc \in {"report", "done"}) =>
          (Keys(results[1]) \cup Keys(results[2]) \cup Keys(results[3]))
              \cap filter_cards = {}

\* a run whose filter file named a card of file 1 and a card of file 2, and
\* that still reported a difference
C2_Witness ==
    /\ pc = "done"
    /\ filter_file
    /\ ~filter_failed
    /\ filter_cards \cap Keys(read1) # {}
    /\ filter_cards \cap Keys(read2) # {}
    /\ Keys(results[1]) # {}

CardFileFailed == \E i \in 1..Len(events) : events[i] \in {<<"fail", 1>>, <<"fail", 2>>}

\* C5 as stated: a failure of file1 or file2 ends the run with status 1 before
\* any report line, the header included, is printed; every other run ends with 0.
C5_NothingPrintedBeforeExit ==
    /\ CardFileFailed => pc \in {"except1", "except2", "exited"}
    /\ pc = "exited" =>
          /\ exit_status = <<1>>
          /\ \A i \in 1..Len(output) :
                output[i][1] \notin {"header", "title", "entry", "none"}
    /\ pc = "done" => exit_status = <<0>>

\* C5 amended: a failure of file1 or file2 ends the run with status 1; by then
\* the header and the error message have been printed and no line of the
\* three report sections; every other run ends with status 0.
C5_NoSectionBeforeExit ==
    /\ CardFileFailed => pc \in {"except1", "except2", "exited"}
    /\ exit_status # <<>> => pc \in {"exited", "done"}
    /\ pc = "exited" =>
          /\ exit_status = <<1>>
          /\ CardFileFailed
          /\ \A i \in 1..Len(output) : output[i][1] \notin {"title", "entry", "none"}
          /\ Len(output) = 2
          /\ output[1] = <<"header">>
          /\ output[2][1] = "error"
    /\ pc = "done" => (exit_status = <<0>> /\ ~CardFileFailed)

\* file 1 was read, file 2 failed and the run has ended
C5_Witness ==
    /\ pc = "exited"
    /\ Keys(cards1) # {}
    /\ \E i \in 1..Len(events) : events[i] = <<"fail", 2>>
    /\ exit_status = <<1>>

\* C6: when the filter file cannot be opened or read to its end, a warning is
\* printed, the exclusion set is empty, the run ends with status 0 and the
\* results are those of the run without --filter.
C6_FailedFilterIsNoFilter ==
    filter_failed =>
        /\ \E i \in 1..Len(output) : output[i] = <<"warning">>
        /\ filter_cards = {}
        /\ pc \in {"report", "done"} => results = CompareMaps(read1, read2)
        /\ pc = "done" => exit_status = <<0>>

\* the lines of section sec, in the order printed
SectionLines(sec) ==
    SelectSeq(output, LAMBDA o : o[1] \in {"title", "entry", "none"} /\ o[2] = sec)

\* the section numbers of the report lines, in the order printed
SectionOrder ==
    LET ls == SelectSeq(output, LAMBDA o : o[1] \in {"title", "entry", "none"})
    IN [i \in 1..Len(ls) |-> ls[i][2]]

\* C9: each section prints one line per entry of its result in strictly
\* ascending order of card name, and the None marker exactly when the result
\* is empty; the sections come in the order 1, 2, 3.
C9_ReportSorted ==
    pc = "done" =>
        /\ \A i \in 1..(Len(SectionOrder) - 1) : SectionOrder[i] <= SectionOrder[i + 1]
        /\ \A sec \in 1..3 :
              LET ls == SectionLines(sec)
                  body == Tail(ls)
                  d == results[sec]
              IN /\ ls # <<>>
                 /\ ls[1] = <<"title", sec>>
                 /\ IF Keys(d) = {}
                    THEN body = <<<<"none", sec>>>>
                    ELSE /\ Len(body) = Cardinality(Keys(d))
                         /\ \A i \in 1..Len(body) :
                               /\ body[i][1] = "entry"
                               /\ body[i][3] \in Keys(d)
                               /\ body[i][4] = d[body[i][3]]
                         /\ \A i \in 1..(Len(body) - 1) :
                               StrLess(body[i][3], body[i + 1][3])

\* a report with three entries in its first section, one of them a prefix of
\* another, and the None marker in its second section
C9_Witness ==
    /\ pc = "done"
    /\ Keys(results[1]) = {<<"A">>, <<"A", "B">>, <<"B">>}
    /\ Keys(results[2]) = {}
    /\ \E i \in 1..Len(output) : output[i] = <<"none", 2>>

Rank(e) ==
    CASE e[1] = "open" -> 10 * e[2]
      [] e[1] = "close" -> 10 * e[2] + 1
      [] e[1] = "fail" -> 10 * e[2] + 2
      [] e[1] = "compare" -> 40
      [] e[1] = "print" -> 41

Happened(e) == \E i \in 1..Len(events) : events[i] = e

\* C10: the steps come in the order file 1, file 2, filter file, compare,
\* print; file 2 is not opened after a failure of file 1, nor the filter file
\* after a failure of file 1 or 2 or without --filter; at most one file is
\* open at a time, only while its lines are read, and none when the run ends.
C10_OrderAndHandles ==
    /\ Cardinality(handles) <= 1
    /\ 1 \in handles => pc = "loop1"
    /\ 2 \in handles => pc = "loop2"
    /\ 3 \in handles => pc = "loopf"
    /\ pc \in {"done", "exited"} => handles = {}
    /\ \A k \in 1..3 :
          (Happened(<<"open", k>>) /\ k \notin handles) =>
              (Happened(<<"close", k>>) \/ Happened(<<"fail", k>>))
    /\ \A i \in 1..(Len(events) - 1) : Rank(events[i]) < Rank(events[i + 1])
    /\ Happened(<<"fail", 1>>) => ~Happened(<<"open", 2>>) /\ ~Happened(<<"open", 3>>)
    /\ Happened(<<"fail", 2>>) => ~Happened(<<"open", 3>>)
    /\ Happened(<<"open", 3>>) => filter_file
    /\ pc = "done" =>
          /\ \A k \in 1..2 : Happened(<<"open", k>>) /\ Happened(<<"close", k>>)
          /\ filter_file => Happened(<<"open", 3>>)
          /\ Happened(<<"compare", 0>>) /\ Happened(<<"print", 0>>)

\* file 2 failed while its lines were read, its handle was closed and the run
\* has ended with status 1
C10_Witness ==
    /\ pc = "exited"
    /\ Happened(<<"open", 2>>)
    /\ Happened(<<"close", 2>>)
    /\ Happened(<<"fail", 2>>)
    /\ handles = {}

====
